---- MODULE Spec2Model ----
(***************************************************************************)
(* minecrust: the byte Buffer with its VarInt codec (src/src/buffer.rs,    *)
(* and the copy of it in src/src/main.rs) and the per-connection protocol  *)
(* state machine Client (src/src/main.rs).                                 *)
(*                                                                         *)
(* Bytes are the naturals 0..255, a Vec<u8> is a sequence of bytes, an i32 *)
(* is an integer in -2^31 .. 2^31-1.                                       *)
(***************************************************************************)
EXTENDS Integers, Sequences, FiniteSets, TLC

VARIABLES
    buf,         \* Client.buf.data: the inbound bytes not yet consumed
    state,       \* Client.state
    pc,          \* where handle() is: "reading", "eof", "failed", "panicked"
    error,       \* the error handle() returned: [kind, at], or NoError
    wire,        \* bytes the peer has sent and stream.read has not yet returned
    peerClosed,  \* the peer has shut its side of the socket down
    sent,        \* history: the items the peer has sent, in order
    received,    \* history: every byte stream.read has returned, in order
    dispatched,  \* history: the frames that reached the match of process_packets
    vvalue,      \* VarInt codec run: the i32 handed to write_var_int
    vrem,        \* VarInt codec run: write_var_int's local `value`
    vbuf,        \* VarInt codec run: the Buffer's data
    vpc,         \* VarInt codec run: "idle", "writing", "written", "read", "aborted"
    vres,        \* VarInt codec run: what read_var_int returned
    cdata,       \* Buffer call: the Buffer's data before the call
    cop,         \* Buffer call: the method called, "none" before the call
    carg,        \* Buffer call: its length argument (0 when it has none)
    cres,        \* Buffer call: what it returned, and the data it left
    preq,        \* packet run: the body of the request received
    ppkt,        \* packet run: the packet to send
    pbody,       \* packet run: history, the packet as to_buffer encoded it
    pout,        \* packet run: the outbound Buffer's data
    plen,        \* packet run: the data of the Buffer holding the length prefix
    ppc,         \* packet run: the step reached, "idle" outside a run
    pres,        \* packet run: what the latest read returned
    clients,     \* server: the Client of every connection, and its peer's side
    nsent        \* server: the number of items the peers have sent

vars == <<buf, state, pc, error, wire, peerClosed, sent, received,
          dispatched, vvalue, vrem, vbuf, vpc, vres, cdata, cop, carg, cres,
          preq, ppkt, pbody, pout, plen, ppc, pres, clients, nsent>>

connVars == <<buf, state, pc, error, wire, peerClosed, sent, received,
              dispatched>>

codecVars == <<vvalue, vrem, vbuf, vpc, vres>>

callVars == <<cdata, cop, carg, cres>>

packetVars == <<preq, ppkt, pbody, pout, plen, ppc, pres>>

serverVars == <<clients, nsent>>

----------------------------------------------------------------------------
(* Fixed-width integer arithmetic *)

RECURSIVE Pow2(_)
Pow2(n) == IF n = 0 THEN 1 ELSE 2 * Pow2(n - 1)

I32Max == Pow2(30) - 1 + Pow2(30)

I32Min == -I32Max - 1

\* Bitwise or / and of two integers in two's complement (\div rounds down and
\* % is never negative, so a \div 2 and a % 2 are a >> 1 and a & 1).
RECURSIVE BitOr(_, _)
BitOr(a, b) ==
    IF a = 0 THEN b
    ELSE IF b = 0 THEN a
    ELSE IF a = -1 \/ b = -1 THEN -1
    ELSE (IF a % 2 = 1 \/ b % 2 = 1 THEN 1 ELSE 0) + 2 * BitOr(a \div 2, b \div 2)

RECURSIVE BitAnd(_, _)
BitAnd(a, b) ==
    IF a = 0 \/ b = 0 THEN 0
    ELSE IF a = -1 THEN b
    ELSE IF b = -1 THEN a
    ELSE (IF a % 2 = 1 /\ b % 2 = 1 THEN 1 ELSE 0) + 2 * BitAnd(a \div 2, b \div 2)

\* i32 `a << n`, 0 <= n < 32: bits 0..31-n of a move up, the higher ones are
\* dropped, and bit 31-n of a becomes the sign.
ShlI32(a, n) ==
    IF n = 0 THEN a
    ELSE (a % Pow2(31 - n)) * Pow2(n)
         + (IF (a \div Pow2(31 - n)) % 2 = 1 THEN I32Min ELSE 0)

\* i32 `a >> n`: the arithmetic shift of a signed integer
ShrI32(a, n) == a \div Pow2(n)

\* `(a as u32) >> n` as i32, 0 < n < 32: the logical shift of the bit pattern
LogicalShr(a, n) ==
    IF a >= 0 THEN a \div Pow2(n) ELSE (a \div Pow2(n)) + Pow2(31 - n) + Pow2(31 - n)

Min(a, b) == IF a < b THEN a ELSE b

Tail_n(s, n) == SubSeq(s, n + 1, Len(s))

IsPrefix(p, s) == Len(p) <= Len(s) /\ SubSeq(s, 1, Len(p)) = p

----------------------------------------------------------------------------
(* Buffer: every read returns [ok, value, data, err]; `data` is the Buffer's   *)
(* data after the call, also when the call fails.                             *)

VarIntLimit == 32

Ok(value, data) == [ok |-> TRUE, value |-> value, data |-> data, err |-> "none"]

Err(err, data) == [ok |-> FALSE, value |-> 0, data |-> data, err |-> err]

\* Buffer::remaining
Remaining(data) == Len(data)

\* Buffer::push_byte
PushByte(data, byte) == Append(data, byte)

\* A variant of push_slice that puts the slice at the head (prepend_slice).
PushSlicePrepend(data, slice) == slice \o data

\* Buffer::push_slice
PushSlice(data, slice) == data \o slice

\* Buffer::check_bytes
CheckBytes(data, want) == Remaining(data) >= want

\* Buffer::read_u8: check_bytes(1), then data.remove(0)
ReadU8(data) ==
    IF ~CheckBytes(data, 1) THEN Err("OutOfBounds", data)
    ELSE Ok(Head(data), Tail(data))

\* A variant of read_var_int without the size guard: it stops after the
\* fifth byte and returns what it has.
RECURSIVE ReadVarIntLoopUnguarded(_, _, _)
ReadVarIntLoopUnguarded(data, value, position) ==
    LET r == ReadU8(data) IN
    IF ~r.ok THEN Err(r.err, r.data)
    ELSE LET v == BitOr(value, ShlI32(BitAnd(r.value, 127), position)) IN
         IF BitAnd(r.value, 128) = 0 \/ position + 7 >= 32 THEN Ok(v, r.data)
         ELSE ReadVarIntLoopUnguarded(r.data, v, position + 7)

\* Buffer::read_var_int: the loop, entered with (value, position)
RECURSIVE ReadVarIntLoop(_, _, _)
ReadVarIntLoop(data, value, position) ==
    LET r == ReadU8(data) IN
    IF ~r.ok THEN Err(r.err, r.data)
    ELSE LET v == BitOr(value, ShlI32(BitAnd(r.value, 127), position)) IN
         IF BitAnd(r.value, 128) = 0 THEN Ok(v, r.data)
         ELSE IF position + 7 >= VarIntLimit THEN Err("InvalidVarIntSize", r.data)
         ELSE ReadVarIntLoop(r.data, v, position + 7)

ReadVarInt(data) == ReadVarIntLoop(data, 0, 0)

\* Buffer::read_bytes_into: check_bytes(len), then len times read_u8
RECURSIVE ReadBytesLoop(_, _, _)
ReadBytesLoop(data, into, left) ==
    IF left = 0 THEN Ok(into, data)
    ELSE LET r == ReadU8(data) IN
         IF ~r.ok THEN Err(r.err, r.data)
         ELSE ReadBytesLoop(r.data, Append(into, r.value), left - 1)

ReadBytesInto(data, len) ==
    IF ~CheckBytes(data, len) THEN Err("OutOfBounds", data)
    ELSE ReadBytesLoop(data, <<>>, len)

\* Buffer::read_bytes
ReadBytes(data, length) ==
    IF ~CheckBytes(data, length) THEN Err("OutOfBounds", data)
    ELSE ReadBytesInto(data, length)

\* A variant of read_buffer that takes the whole Vec away from the Buffer
\* and keeps `length` bytes of it.
ReadBufferTake(data, length) ==
    IF ~CheckBytes(data, length) THEN Err("OutOfBounds", data)
    ELSE Ok(SubSeq(data, 1, length), <<>>)

\* Buffer::read_buffer: the bytes read become a Buffer of their own
ReadBuffer(data, length) == ReadBytes(data, length)

\* One UTF-8 scalar value at the head of `b`: its length in bytes, 0 when the
\* bytes are not well-formed UTF-8 (what String::from_utf8 accepts).
IsCont(b, i, lo, hi) == i <= Len(b) /\ b[i] >= lo /\ b[i] <= hi

Utf8Width(b) ==
    LET c == b[1] IN
    IF c <= 127 THEN 1
    ELSE IF c >= 194 /\ c <= 223 THEN (IF IsCont(b, 2, 128, 191) THEN 2 ELSE 0)
    ELSE IF c >= 224 /\ c <= 239 THEN
        (IF /\ IsCont(b, 2, IF c = 224 THEN 160 ELSE 128, IF c = 237 THEN 159 ELSE 191)
            /\ IsCont(b, 3, 128, 191) THEN 3 ELSE 0)
    ELSE IF c >= 240 /\ c <= 244 THEN
        (IF /\ IsCont(b, 2, IF c = 240 THEN 144 ELSE 128, IF c = 244 THEN 143 ELSE 191)
            /\ IsCont(b, 3, 128, 191)
            /\ IsCont(b, 4, 128, 191) THEN 4 ELSE 0)
    ELSE 0

RECURSIVE IsUtf8(_)
IsUtf8(b) ==
    IF b = <<>> THEN TRUE
    ELSE LET w == Utf8Width(b) IN w > 0 /\ IsUtf8(Tail_n(b, w))

\* Buffer::read_string; a String is kept as its UTF-8 bytes. Its three steps,
\* last first: String::from_utf8 on the bytes read, read_bytes of the length read,
\* read_var_int of the length.
ReadStringUtf8(bytes) ==
    IF ~bytes.ok THEN Err(bytes.err, bytes.data)
    ELSE IF ~IsUtf8(bytes.value) THEN Err("InvalidUTF8String", bytes.data)
    ELSE Ok(bytes.value, bytes.data)

\* A variant of read_string without the test of the sign: `length as usize` of
\* a negative length is a length no Buffer holds.
ReadStringBytesUnsigned(length) ==
    IF ~length.ok THEN Err(length.err, length.data)
    ELSE ReadStringUtf8(ReadBytes(length.data, IF length.value < 0 THEN I32Max ELSE length.value))

ReadStringBytes(length) ==
    IF ~length.ok THEN Err(length.err, length.data)
    ELSE IF length.value < 0 THEN Err("InvalidStringLength", length.data)
    ELSE ReadStringUtf8(ReadBytes(length.data, length.value))

ReadString(data) == ReadStringBytes(ReadVarInt(data))

\* Buffer::read_ushort: two bytes, u16::from_be_bytes
ReadUshort(data) ==
    LET bytes == ReadBytesInto(data, 2) IN
    IF ~bytes.ok THEN Err(bytes.err, bytes.data)
    ELSE Ok(bytes.value[1] * 256 + bytes.value[2], bytes.data)

\* Buffer::read_u16 (buffer.rs): two bytes, u16::from_be_bytes
ReadU16(data) ==
    LET bytes == ReadBytesInto(data, 2) IN
    IF ~bytes.ok THEN Err(bytes.err, bytes.data)
    ELSE Ok(bytes.value[1] * 256 + bytes.value[2], bytes.data)

\* Buffer::write_var_int, all turns of its loop; it returns for value >= 0 only
\* (WriteVarIntStep is one turn of it).
RECURSIVE WriteVarIntLoop(_, _)
WriteVarIntLoop(data, value) ==
    IF ShrI32(value, 7) # 0
    THEN WriteVarIntLoop(PushByte(data, BitOr(BitAnd(value, 127), 128)), ShrI32(value, 7))
    ELSE PushByte(data, BitAnd(value, 127))

WriteVarInt(data, value) == WriteVarIntLoop(data, value)

\* Buffer::write_string of the String with these UTF-8 bytes
WriteString(data, bytes) == PushSlice(WriteVarInt(data, Len(bytes)), bytes)

\* Vec::splice(start..end, items): items take the place of data[start..end]
Splice(data, start, end, items) ==
    SubSeq(data, 1, start) \o items \o SubSeq(data, end + 1, Len(data))

\* A variant of prepend_slice that puts the slice at the tail (push_slice).
PrependSliceAtTail(data, slice) == data \o slice

\* Buffer::prepend_slice
PrependSlice(data, slice) == Splice(data, 0, 0, slice)

\* Buffer::prepend_buffer(&mut buf), `from` being buf.data: what the call
\* leaves in self.data (`data`) and in buf.data (`buf`)
PrependBuffer(data, from) == [data |-> PrependSlice(data, from), buf |-> <<>>]

\* An i64 is kept as its four 16-bit limbs <<l3, l2, l1, l0>>, most significant
\* first: its value is l3 * 2^48 + l2 * 2^32 + l1 * 2^16 + l0 with l3 in
\* -2^15 .. 2^15-1 (the sign) and l2, l1, l0 in 0 .. 2^16-1.
I64FromBeBytes(b) ==
    LET top == b[1] * 256 + b[2] IN
    << IF top >= 32768 THEN top - 65536 ELSE top,
       b[3] * 256 + b[4], b[5] * 256 + b[6], b[7] * 256 + b[8] >>

\* A variant of i64::to_be_bytes: least significant byte first (to_le_bytes).
I64ToLeBytes(v) ==
    << v[4] % 256, v[4] \div 256, v[3] % 256, v[3] \div 256,
       v[2] % 256, v[2] \div 256, v[1] % 256, (v[1] % 65536) \div 256 >>

\* i64::to_be_bytes
I64ToBeBytes(v) ==
    << (v[1] % 65536) \div 256, v[1] % 256, v[2] \div 256, v[2] % 256,
       v[3] \div 256, v[3] % 256, v[4] \div 256, v[4] % 256 >>

\* Buffer::write_i64
WriteI64(data, value) == PushSlice(data, I64ToBeBytes(value))

\* Buffer::read_i64: eight bytes, i64::from_be_bytes
ReadI64(data) ==
    LET bytes == ReadBytesInto(data, 8) IN
    IF ~bytes.ok THEN Err(bytes.err, bytes.data)
    ELSE Ok(I64FromBeBytes(bytes.value), bytes.data)

----------------------------------------------------------------------------
(* Client *)

ClientState == {"Handshaking", "Play", "Status", "Login"}

NoError == [kind |-> "none", at |-> "none"]

NoPacket == <<>>

\* What process_packets leaves behind: the client's buf and state, its result
\* ("Ok", "Panic" or the error's kind), the read that produced the error, and the
\* frame that reached the match, if one did.
Outcome(data, st, result, at, frames) ==
    [buf |-> data, state |-> st, result |-> result, at |-> at, dispatched |-> frames]

\* A frame at the match of process_packets: the state and packet ID matched on,
\* the frame's payload, the fields a handler decoded and the arm's outcome.
Dispatch(st, id, payload, packet, outcome) ==
    [state |-> st, packet_id |-> id, payload |-> payload, packet |-> packet,
     outcome |-> outcome]

\* Variants of the next_state match with a plausible slip: the two arms swapped,
\* a third arm for Play, every value accepted.
NextStateFlipped(st, next_state) ==
    IF next_state = 1 THEN "Login"
    ELSE IF next_state = 2 THEN "Status"
    ELSE st

NextStateLenient(st, next_state) ==
    IF next_state = 1 THEN "Status"
    ELSE IF next_state = 2 THEN "Login"
    ELSE IF next_state = 3 THEN "Play"
    ELSE st

NextStateValidAny(next_state) == TRUE

\* The match on next_state of the handshake arm: the state it assigns (st itself
\* in the arm that returns LogicError), and whether it returns Ok.
NextState(st, next_state) ==
    IF next_state = 1 THEN "Status"
    ELSE IF next_state = 2 THEN "Login"
    ELSE st

NextStateValid(next_state) == next_state \in {1, 2}

\* A variant of the handshake arm that drops a decode error instead of
\* returning it with `?`.
HandshakeFailedIgnored(data, st, payload, err, at) ==
    Outcome(data, st, "Ok", "none", <<Dispatch(st, 0, payload, NoPacket, "DecodeError")>>)

\* The arm (ClientState::Handshaking, 0x00) of process_packets, one operator per
\* statement, last first: each takes what the read before it returned.
\* `data` is the client's buf, `payload` the frame's bytes.
HandshakeFailed(data, st, payload, err, at) ==
    Outcome(data, st, err, at, <<Dispatch(st, 0, payload, NoPacket, "DecodeError")>>)

\* match next_state { 1 => .., 2 => .., _ => return Err(LogicError) }
HandshakeMatch(data, st, payload, packet) ==
    IF NextStateValid(packet[4])
    THEN Outcome(data, NextState(st, packet[4]), "Ok", "none",
                 <<Dispatch(st, 0, payload, packet, NextState(st, packet[4]))>>)
    ELSE Outcome(data, NextState(st, packet[4]), "LogicError", "match",
                 <<Dispatch(st, 0, payload, packet, "LogicError")>>)

\* let next_state = payload.read_var_int()?
HandshakeNextState(data, st, payload, version, address, port, next_state) ==
    IF ~next_state.ok
    THEN HandshakeFailed(data, st, payload, next_state.err, "next_state")
    ELSE HandshakeMatch(data, st, payload, <<version, address, port, next_state.value>>)

\* let server_port = payload.read_ushort()?
HandshakePort(data, st, payload, protocol_version, server_address, server_port) ==
    IF ~server_port.ok
    THEN HandshakeFailed(data, st, payload, server_port.err, "server_port")
    ELSE HandshakeNextState(data, st, payload, protocol_version, server_address,
                            server_port.value, ReadVarInt(server_port.data))

\* let server_address = payload.read_string()?
HandshakeAddress(data, st, payload, protocol_version, server_address) ==
    IF ~server_address.ok
    THEN HandshakeFailed(data, st, payload, server_address.err, "server_address")
    ELSE HandshakePort(data, st, payload, protocol_version, server_address.value,
                       ReadUshort(server_address.data))

\* let protocol_version = payload.read_var_int()?
HandshakeVersion(data, st, payload, protocol_version) ==
    IF ~protocol_version.ok
    THEN HandshakeFailed(data, st, payload, protocol_version.err, "protocol_version")
    ELSE HandshakeAddress(data, st, payload, protocol_version.value,
                          ReadString(protocol_version.data))

HandleHandshake(data, st, payload, body) ==
    HandshakeVersion(data, st, payload, ReadVarInt(body))

\* A variant of the arm _ that returns an error.
HandleUnhandledFatal(data, st, payload, packet_id) ==
    Outcome(data, st, "LogicError", "match",
            <<Dispatch(st, packet_id, payload, NoPacket, "Unhandled")>>)

\* The arm _ of process_packets
HandleUnhandled(data, st, payload, packet_id) ==
    Outcome(data, st, "Ok", "none",
            <<Dispatch(st, packet_id, payload, NoPacket, "Unhandled")>>)

\* Client::process_packets on a client whose buf holds `data`, one operator per
\* statement, last first.
\* match (&self.state, packet_id)
ProcessMatch(st, payload, packet_id) ==
    IF ~packet_id.ok THEN Outcome(payload.data, st, packet_id.err, "packet_id", <<>>)
    ELSE IF st = "Handshaking" /\ packet_id.value = 0
    THEN HandleHandshake(payload.data, st, payload.value, packet_id.data)
    ELSE HandleUnhandled(payload.data, st, payload.value, packet_id.value)

\* let packet_id = payload.read_var_int()?
ProcessPayload(st, payload) ==
    IF ~payload.ok THEN Outcome(payload.data, st, payload.err, "payload", <<>>)
    ELSE ProcessMatch(st, payload, ReadVarInt(payload.value))

\* assert!(length >= 0); let mut payload = self.buf.read_buffer(length as usize)?
ProcessLength(st, length) ==
    IF ~length.ok THEN Outcome(length.data, st, length.err, "length", <<>>)
    ELSE IF ~(length.value >= 0) THEN Outcome(length.data, st, "Panic", "assert", <<>>)
    ELSE ProcessPayload(st, ReadBuffer(length.data, length.value))

\* let length = self.buf.read_var_int()?
ProcessPackets(data, st) == ProcessLength(st, ReadVarInt(data))

----------------------------------------------------------------------------
(* The peer: what a protocol client puts on the wire (spec.md section 6).     *)

\* VarInt of an i32: 7 data bits of its bit pattern per byte, least-significant
\* group first, the high bit set on every byte but the last
RECURSIVE WireVarInt(_)
WireVarInt(v) ==
    IF v >= 0 /\ v < 128 THEN <<v>>
    ELSE <<(v % 128) + 128>> \o WireVarInt(LogicalShr(v, 7))

WireString(bytes) == WireVarInt(Len(bytes)) \o bytes

WireU16(n) == <<n \div 256, n % 256>>

\* Frame := VarInt(length) Payload[length]
WireFrame(payload) == WireVarInt(Len(payload)) \o payload

\* What the peer sends: a handshake packet, another packet (ID and body), or
\* raw bytes that are no well-formed frame.
Handshake(protocol_version, server_address, server_port, next_state) ==
    [kind |-> "handshake", packet_id |-> 0,
     packet |-> <<protocol_version, server_address, server_port, next_state>>,
     bytes |-> <<>>]

Packet(packet_id, body) ==
    [kind |-> "packet", packet_id |-> packet_id, packet |-> NoPacket, bytes |-> body]

Raw(bytes) == [kind |-> "raw", packet_id |-> 0, packet |-> NoPacket, bytes |-> bytes]

\* Payload := VarInt(packet_id) Body
ItemPayload(it) ==
    IF it.kind = "handshake"
    THEN WireVarInt(it.packet_id) \o WireVarInt(it.packet[1]) \o WireString(it.packet[2])
         \o WireU16(it.packet[3]) \o WireVarInt(it.packet[4])
    ELSE WireVarInt(it.packet_id) \o it.bytes

ItemBytes(it) == IF it.kind = "raw" THEN it.bytes ELSE WireFrame(ItemPayload(it))

Localhost == <<97>>

Handshakes ==
    { Handshake(763, Localhost, 25565, 1), Handshake(0, <<>>, 0, 1),
      Handshake(763, Localhost, 25565, 2), Handshake(0, <<>>, 0, 2),
      Handshake(0, <<>>, 0, 3), Handshake(0, <<>>, 0, -1) }

StatusRequest == Packet(0, <<>>)

Ping == Packet(1, <<0, 0, 0, 0, 0, 0, 0, 42>>)

Unknown == Packet(127, <<42>>)

Malformed ==
    { Raw(<<0>>),                          \* a frame of length 0: no packet ID
      Raw(WireVarInt(-1)),                 \* a negative frame length
      Raw(<<255, 255, 255, 255, 255>>),    \* a length VarInt that never ends
      Raw(<<2, 0, 0>>) }                   \* a handshake cut after protocol_version

Items == Handshakes \cup {StatusRequest, Ping, Unknown} \cup Malformed

----------------------------------------------------------------------------
(* The connection: handle_client, Client::new, Client::handle *)

\* No Buffer call is under way.
CallIdle ==
    /\ cdata = <<>>
    /\ cop = "none"
    /\ carg = 0
    /\ cres = Err("none", <<>>)

\* The connections of the server: the sockets listener.accept() returns.
Conns == {1, 2}

\* A connection the listener has not accepted yet.
NoClient ==
    [buf |-> <<>>, state |-> "Handshaking", pc |-> "unaccepted", error |-> NoError,
     wire |-> <<>>, peerClosed |-> FALSE]

\* No connection has been accepted.
ServerIdle ==
    /\ clients = [c \in Conns |-> NoClient]
    /\ nsent = 0

\* No packet is being answered or sent.
PacketIdle ==
    /\ preq = <<>>
    /\ ppkt = NoPacket
    /\ pbody = <<>>
    /\ pout = <<>>
    /\ plen = <<>>
    /\ ppc = "idle"
    /\ pres = Err("none", <<>>)

MaxSends == 2

FrameSize == 1024

Init ==
    /\ buf = <<>>
    /\ state = "Handshaking"
    /\ pc = "reading"
    /\ error = NoError
    /\ wire = <<>>
    /\ peerClosed = FALSE
    /\ sent = <<>>
    /\ received = <<>>
    /\ dispatched = <<>>
    /\ vvalue = 0
    /\ vrem = 0
    /\ vbuf = <<>>
    /\ vpc = "idle"
    /\ vres = Err("none", <<>>)
    /\ CallIdle
    /\ PacketIdle
    /\ ServerIdle

\* The peer writes one item to its socket.
Send(it) ==
    /\ pc = "reading"
    /\ ~peerClosed
    /\ Len(sent) < MaxSends
    /\ wire' = wire \o ItemBytes(it)
    /\ sent' = Append(sent, it)
    /\ UNCHANGED <<buf, state, pc, error, peerClosed, received, dispatched>>
    /\ UNCHANGED codecVars
    /\ UNCHANGED callVars
    /\ UNCHANGED packetVars
    /\ UNCHANGED serverVars

\* The peer closes its socket.
PeerClose ==
    /\ pc = "reading"
    /\ ~peerClosed
    /\ peerClosed' = TRUE
    /\ UNCHANGED <<buf, state, pc, error, wire, sent, received, dispatched>>
    /\ UNCHANGED codecVars
    /\ UNCHANGED callVars
    /\ UNCHANGED packetVars
    /\ UNCHANGED serverVars

\* self.process_packets()? in Client::handle: what the client is left with
Processed(o) ==
    /\ buf' = o.buf
    /\ state' = o.state
    /\ dispatched' = dispatched \o o.dispatched
    /\ pc' = IF o.result = "Ok" THEN "reading"
             ELSE IF o.result = "Panic" THEN "panicked"
             ELSE "failed"
    /\ error' = IF o.result = "Ok" THEN NoError ELSE [kind |-> o.result, at |-> o.at]

\* One turn of the loop of Client::handle in which stream.read returns n > 0
\* bytes: push_slice, then process_packets()?
Recv(n) ==
    /\ pc = "reading"
    /\ n >= 1 /\ n <= Len(wire) /\ n <= FrameSize
    /\ wire' = Tail_n(wire, n)
    /\ received' = received \o SubSeq(wire, 1, n)
    /\ Processed(ProcessPackets(PushSlice(buf, SubSeq(wire, 1, n)), state))
    /\ UNCHANGED <<peerClosed, sent>>
    /\ UNCHANGED codecVars
    /\ UNCHANGED callVars
    /\ UNCHANGED packetVars
    /\ UNCHANGED serverVars

\* stream.read returns 0: handle returns Ok(())
RecvEof ==
    /\ pc = "reading"
    /\ wire = <<>>
    /\ peerClosed
    /\ pc' = "eof"
    /\ UNCHANGED <<buf, state, error, wire, peerClosed, sent, received, dispatched>>
    /\ UNCHANGED codecVars
    /\ UNCHANGED callVars
    /\ UNCHANGED packetVars
    /\ UNCHANGED serverVars

\* stream.read returns an io::Error: handle returns NetworkError
RecvError ==
    /\ pc = "reading"
    /\ pc' = "failed"
    /\ error' = [kind |-> "NetworkError", at |-> "read"]
    /\ UNCHANGED <<buf, state, wire, peerClosed, sent, received, dispatched>>
    /\ UNCHANGED codecVars
    /\ UNCHANGED callVars
    /\ UNCHANGED packetVars
    /\ UNCHANGED serverVars

Next ==
    \/ \E it \in Items : Send(it)
    \/ PeerClose
    \/ \E n \in 1..Min(Len(wire), FrameSize) : Recv(n)
    \/ RecvEof
    \/ RecvError

Spec == Init /\ [][Next]_vars

----------------------------------------------------------------------------
(* The connection with a peer whose frames are complete and whose payloads  *)
(* do not decode.                                                            *)

\* Frames with ID 0x00 whose body is not a handshake, and the empty frame,
\* each with the BufferError its decoding runs into.
TruncatedHandshake == Packet(0, <<0, 0, 0>>)

OverlongVarInt == Packet(0, <<255, 255, 255, 255, 255>>)

NegativeAddressLength == Packet(0, <<0>> \o WireVarInt(-1))

BadUtf8Address == Packet(0, <<0, 1, 255>>)

EmptyFrame == Raw(<<0>>)

DecodeFaults ==
    { [item |-> TruncatedHandshake, err |-> "OutOfBounds"],
      [item |-> OverlongVarInt, err |-> "InvalidVarIntSize"],
      [item |-> NegativeAddressLength, err |-> "InvalidStringLength"],
      [item |-> BadUtf8Address, err |-> "InvalidUTF8String"],
      [item |-> EmptyFrame, err |-> "OutOfBounds"] }

DecodeItems ==
    {Handshake(763, Localhost, 25565, 1), Unknown} \cup {f.item : f \in DecodeFaults}

NextDecode ==
    \/ \E it \in DecodeItems : Send(it)
    \/ PeerClose
    \/ \E n \in 1..Min(Len(wire), FrameSize) : Recv(n)
    \/ RecvEof
    \/ RecvError

SpecDecode == Init /\ [][NextDecode]_vars

----------------------------------------------------------------------------
(* The server: run_server spawns one task handle_client per accepted         *)
(* connection; each task owns its Client. A step is a step of one task or    *)
(* of one peer.                                                              *)

\* The most items the peers of the server send, all connections together.
MaxServerSends == 2

\* What the peers of the server send.
ServerItems ==
    {Handshake(0, <<>>, 0, 1), Unknown, BadUtf8Address, Raw(WireVarInt(-1))}

\* A variant in which the Buffer is one static shared by all Clients.
ServedSharedBuffer(cs, c, client) ==
    [d \in DOMAIN cs |-> IF d = c THEN client ELSE [cs[d] EXCEPT !.buf = client.buf]]

\* The tasks after a step of the task of connection c: its Client, owned by
\* the task alone, is now `client`.
Served(cs, c, client) == [cs EXCEPT ![c] = client]

\* Client::new(stream) in the task spawned for the connection
ClientNew ==
    [buf |-> <<>>, state |-> "Handshaking", pc |-> "reading", error |-> NoError,
     wire |-> <<>>, peerClosed |-> FALSE]

\* The Client after a read of n bytes and self.process_packets()?
ClientProcessed(client, n, o) ==
    [buf |-> o.buf,
     state |-> o.state,
     pc |-> IF o.result = "Ok" THEN "reading"
            ELSE IF o.result = "Panic" THEN "panicked"
            ELSE "failed",
     error |-> IF o.result = "Ok" THEN NoError ELSE [kind |-> o.result, at |-> o.at],
     wire |-> Tail_n(client.wire, n),
     peerClosed |-> client.peerClosed]

ServerFrame ==
    /\ UNCHANGED connVars
    /\ UNCHANGED codecVars
    /\ UNCHANGED callVars
    /\ UNCHANGED packetVars

\* listener.accept() returns the stream of connection c; its task is spawned.
Accept(c) ==
    /\ clients[c].pc = "unaccepted"
    /\ clients' = Served(clients, c, ClientNew)
    /\ UNCHANGED nsent
    /\ ServerFrame

\* The peer of connection c writes one item to its socket.
SendTo(c, it) ==
    /\ clients[c].pc = "reading"
    /\ ~clients[c].peerClosed
    /\ nsent < MaxServerSends
    /\ clients' = [clients EXCEPT ![c].wire = @ \o ItemBytes(it)]
    /\ nsent' = nsent + 1
    /\ ServerFrame

\* The peer of connection c closes its socket.
PeerCloseOf(c) ==
    /\ clients[c].pc = "reading"
    /\ ~clients[c].peerClosed
    /\ clients' = [clients EXCEPT ![c].peerClosed = TRUE]
    /\ UNCHANGED nsent
    /\ ServerFrame

\* One turn of the loop of Client::handle in the task of connection c.
RecvOf(c, n) ==
    /\ clients[c].pc = "reading"
    /\ n >= 1 /\ n <= Len(clients[c].wire) /\ n <= FrameSize
    /\ clients' = Served(clients, c, ClientProcessed(clients[c], n,
           ProcessPackets(PushSlice(clients[c].buf, SubSeq(clients[c].wire, 1, n)),
                          clients[c].state)))
    /\ UNCHANGED nsent
    /\ ServerFrame

\* stream.read returns 0 in the task of connection c.
RecvEofOf(c) ==
    /\ clients[c].pc = "reading"
    /\ clients[c].wire = <<>>
    /\ clients[c].peerClosed
    /\ clients' = Served(clients, c, [clients[c] EXCEPT !.pc = "eof"])
    /\ UNCHANGED nsent
    /\ ServerFrame

\* stream.read returns an io::Error in the task of connection c.
RecvErrorOf(c) ==
    /\ clients[c].pc = "reading"
    /\ clients' = Served(clients, c,
           [clients[c] EXCEPT !.pc = "failed",
                              !.error = [kind |-> "NetworkError", at |-> "read"]])
    /\ UNCHANGED nsent
    /\ ServerFrame

NextServer ==
    \/ \E c \in Conns : Accept(c)
    \/ \E c \in Conns, it \in ServerItems : SendTo(c, it)
    \/ \E c \in Conns : PeerCloseOf(c)
    \/ \E c \in Conns : \E n \in 1..Min(Len(clients[c].wire), FrameSize) : RecvOf(c, n)
    \/ \E c \in Conns : RecvEofOf(c)
    \/ \E c \in Conns : RecvErrorOf(c)

SpecServer == Init /\ [][NextServer]_vars

----------------------------------------------------------------------------
(* The VarInt codec on its own: write_var_int(vvalue) into an empty Buffer,   *)
(* one turn of its loop per step, then read_var_int on what was written.      *)

\* The most bytes a Vec holds in this model: a push past it fails the
\* allocation, which ends the program.
MaxVecLen == 6

Values ==
    { 0, 1, 2, 127, 128, 129, 255, 256, 763, 16383, 16384, 25565, 2097151, 2097152,
      268435455, 268435456, I32Max - 1, I32Max,
      -1, -2, -127, -128, -129, -25565, I32Min + 1, I32Min }

InitCodec ==
    /\ buf = <<>>
    /\ state = "Handshaking"
    /\ pc = "reading"
    /\ error = NoError
    /\ wire = <<>>
    /\ peerClosed = FALSE
    /\ sent = <<>>
    /\ received = <<>>
    /\ dispatched = <<>>
    /\ vvalue \in Values
    /\ vrem = vvalue
    /\ vbuf = <<>>
    /\ vpc = "writing"
    /\ vres = Err("none", <<>>)
    /\ CallIdle
    /\ PacketIdle
    /\ ServerIdle

\* One turn of the loop of Buffer::write_var_int
WriteVarIntStep ==
    /\ vpc = "writing"
    /\ LET temp == BitAnd(vrem, 127)
           value == ShrI32(vrem, 7)
           byte == IF value # 0 THEN BitOr(temp, 128) ELSE temp
       IN IF Len(vbuf) >= MaxVecLen
          THEN /\ vpc' = "aborted"
               /\ UNCHANGED <<vrem, vbuf>>
          ELSE /\ vbuf' = PushByte(vbuf, byte)
               /\ vrem' = value
               /\ vpc' = IF value = 0 THEN "written" ELSE "writing"
    /\ UNCHANGED <<vvalue, vres>>
    /\ UNCHANGED connVars
    /\ UNCHANGED callVars
    /\ UNCHANGED packetVars
    /\ UNCHANGED serverVars

\* Buffer::read_var_int on the Buffer write_var_int returned
ReadBack ==
    /\ vpc = "written"
    /\ LET r == ReadVarInt(vbuf)
       IN /\ vres' = r
          /\ vbuf' = r.data
    /\ vpc' = "read"
    /\ UNCHANGED <<vvalue, vrem>>
    /\ UNCHANGED connVars
    /\ UNCHANGED callVars
    /\ UNCHANGED packetVars
    /\ UNCHANGED serverVars

NextCodec ==
    \/ WriteVarIntStep
    \/ ReadBack

SpecCodec == InitCodec /\ [][NextCodec]_vars

----------------------------------------------------------------------------
(* One call of a read method of Buffer on a Buffer holding any bytes.        *)

\* The longest Buffer a call is made on.
MaxDataLen == 6

\* The largest length argument of read_bytes, read_bytes_into and read_buffer.
MaxWant == 3

\* The byte values Buffers are built from: no VarInt bits, the lowest bit, all
\* seven VarInt bits, all seven with the continuation bit.
DataBytes == {0, 1, 127, 255}

Datas == UNION {[1..n -> DataBytes] : n \in 0..MaxDataLen}

InitCall ==
    /\ buf = <<>>
    /\ state = "Handshaking"
    /\ pc = "reading"
    /\ error = NoError
    /\ wire = <<>>
    /\ peerClosed = FALSE
    /\ sent = <<>>
    /\ received = <<>>
    /\ dispatched = <<>>
    /\ vvalue = 0
    /\ vrem = 0
    /\ vbuf = <<>>
    /\ vpc = "idle"
    /\ vres = Err("none", <<>>)
    /\ cdata \in Datas
    /\ cop = "none"
    /\ carg = 0
    /\ cres = Err("none", cdata)
    /\ PacketIdle
    /\ ServerIdle

\* The call `op(arg)` returns `result`.
Called(op, arg, result) ==
    /\ cop = "none"
    /\ cop' = op
    /\ carg' = arg
    /\ cres' = result
    /\ UNCHANGED cdata
    /\ UNCHANGED connVars
    /\ UNCHANGED codecVars
    /\ UNCHANGED packetVars
    /\ UNCHANGED serverVars

CallReadU8 == Called("read_u8", 0, ReadU8(cdata))

CallReadU16 == Called("read_u16", 0, ReadU16(cdata))

CallReadI64 == Called("read_i64", 0, ReadI64(cdata))

CallReadBytes(n) == Called("read_bytes", n, ReadBytes(cdata, n))

CallReadBytesInto(n) == Called("read_bytes_into", n, ReadBytesInto(cdata, n))

CallReadBuffer(n) == Called("read_buffer", n, ReadBuffer(cdata, n))

CallReadVarInt == Called("read_var_int", 0, ReadVarInt(cdata))

CallReadString == Called("read_string", 0, ReadString(cdata))

NextCall ==
    \/ CallReadU8
    \/ CallReadU16
    \/ CallReadI64
    \/ \E n \in 0..MaxWant : CallReadBytes(n)
    \/ \E n \in 0..MaxWant : CallReadBytesInto(n)
    \/ \E n \in 0..MaxWant : CallReadBuffer(n)
    \/ CallReadVarInt
    \/ CallReadString

SpecCall == InitCall /\ [][NextCall]_vars

----------------------------------------------------------------------------
(* Packets (src/src/packet.rs): a Ping request is decoded and answered, or a *)
(* Status response is sent; the packet is encoded into an outbound Buffer,   *)
(* the VarInt of its size is prepended, and the frame is read back.          *)

\* C2SPingPacket::from_buffer
C2SPingPacketFromBuffer(data) ==
    LET payload == ReadI64(data) IN
    IF ~payload.ok THEN Err(payload.err, payload.data)
    ELSE Ok([id |-> "C2SPing", payload |-> payload.value], payload.data)

S2CPingPacket(payload) == [id |-> "S2CPing", payload |-> payload]

S2CStatusResponsePacket(json) == [id |-> "S2CStatusResponse", json_response |-> json]

\* S2CPingPacket::to_buffer
S2CPingPacketToBuffer(packet, data) == WriteI64(WriteVarInt(data, 1), packet.payload)

\* S2CStatusResponsePacket::to_buffer
S2CStatusResponsePacketToBuffer(packet, data) ==
    WriteString(WriteVarInt(data, 0), packet.json_response)

\* The Ping request bodies: eight bytes, among them the payloads 0, -1,
\* i64::MIN and i64::MAX.
PingBodies ==
    {<<a>> \o b : a \in {0, 127, 128, 255}, b \in [1..7 -> {0, 1, 255}]}

\* The lengths of the status documents sent.
JsonLens == {0, 1, 2, 30, 61, 62}

StatusResponses == {S2CStatusResponsePacket([i \in 1..n |-> 97]) : n \in JsonLens}

InitPacket ==
    /\ buf = <<>>
    /\ state = "Handshaking"
    /\ pc = "reading"
    /\ error = NoError
    /\ wire = <<>>
    /\ peerClosed = FALSE
    /\ sent = <<>>
    /\ received = <<>>
    /\ dispatched = <<>>
    /\ vvalue = 0
    /\ vrem = 0
    /\ vbuf = <<>>
    /\ vpc = "idle"
    /\ vres = Err("none", <<>>)
    /\ CallIdle
    /\ \/ /\ preq \in PingBodies
          /\ ppkt = NoPacket
          /\ ppc = "request"
       \/ /\ preq = <<>>
          /\ ppkt \in StatusResponses
          /\ ppc = "decoded"
    /\ pbody = <<>>
    /\ pout = <<>>
    /\ plen = <<>>
    /\ pres = Err("none", <<>>)
    /\ ServerIdle

PacketFrame ==
    /\ UNCHANGED connVars
    /\ UNCHANGED codecVars
    /\ UNCHANGED callVars
    /\ UNCHANGED serverVars

\* The Ping request is decoded and a Ping response with its payload is made.
DecodePing ==
    /\ ppc = "request"
    /\ LET packet == C2SPingPacketFromBuffer(preq)
       IN /\ pres' = packet
          /\ IF packet.ok
             THEN ppkt' = S2CPingPacket(packet.value.payload) /\ ppc' = "decoded"
             ELSE ppkt' = ppkt /\ ppc' = "failed"
    /\ UNCHANGED <<preq, pbody, pout, plen>>
    /\ PacketFrame

\* The packet is encoded into a new Buffer.
Encoded(data) ==
    /\ pout' = data
    /\ pbody' = data
    /\ ppc' = "encoded"
    /\ UNCHANGED <<preq, ppkt, plen, pres>>
    /\ PacketFrame

EncodePing ==
    /\ ppc = "decoded"
    /\ ppkt.id = "S2CPing"
    /\ Encoded(S2CPingPacketToBuffer(ppkt, <<>>))

EncodeStatusResponse ==
    /\ ppc = "decoded"
    /\ ppkt.id = "S2CStatusResponse"
    /\ Encoded(S2CStatusResponsePacketToBuffer(ppkt, <<>>))

\* The size of the encoded packet is written as a VarInt into a Buffer of
\* its own.
WriteLength ==
    /\ ppc = "encoded"
    /\ plen' = WriteVarInt(<<>>, Remaining(pout))
    /\ ppc' = "measured"
    /\ UNCHANGED <<preq, ppkt, pbody, pout, pres>>
    /\ PacketFrame

\* packet.prepend_slice(&length.data)
CallPrependSlice ==
    /\ ppc = "measured"
    /\ pout' = PrependSlice(pout, plen)
    /\ ppc' = "prepended_slice"
    /\ UNCHANGED <<preq, ppkt, pbody, plen, pres>>
    /\ PacketFrame

\* packet.prepend_buffer(&mut length)
CallPrependBuffer ==
    /\ ppc = "measured"
    /\ pout' = PrependBuffer(pout, plen).data
    /\ plen' = PrependBuffer(pout, plen).buf
    /\ ppc' = "prepended_buffer"
    /\ UNCHANGED <<preq, ppkt, pbody, pres>>
    /\ PacketFrame

\* read_var_int on the framed bytes
ReadFrameLength ==
    /\ ppc \in {"prepended_slice", "prepended_buffer"}
    /\ pres' = ReadVarInt(pout)
    /\ pout' = ReadVarInt(pout).data
    /\ ppc' = IF ReadVarInt(pout).ok THEN "length_read" ELSE "failed"
    /\ UNCHANGED <<preq, ppkt, pbody, plen>>
    /\ PacketFrame

\* read_buffer of the length read
ReadFramePayload ==
    /\ ppc = "length_read"
    /\ pres' = ReadBuffer(pout, pres.value)
    /\ pout' = ReadBuffer(pout, pres.value).data
    /\ ppc' = "payload_read"
    /\ UNCHANGED <<preq, ppkt, pbody, plen>>
    /\ PacketFrame

NextPacket ==
    \/ DecodePing
    \/ EncodePing
    \/ EncodeStatusResponse
    \/ WriteLength
    \/ CallPrependSlice
    \/ CallPrependBuffer
    \/ ReadFrameLength
    \/ ReadFramePayload

SpecPacket == InitPacket /\ [][NextPacket]_vars

----------------------------------------------------------------------------
(* Properties of the connection (Spec)                                        *)

\* The frames the peer sends whole: a handshake or another packet.
Frames == {it \in Items : it.kind # "raw"}

\* The bytes the latest stream.read returned, in a step that read some.
Received == received' # received

NewBytes == Tail_n(received', Len(received))

\* The client's buf when process_packets starts in such a step.
Ingested == buf \o NewBytes

\* `data` starts with the whole frame `it`.
StartsWith(data, it) == IsPrefix(ItemBytes(it), data)

\* `data` holds the first bytes of a frame, and not all of them.
IsFramePrefix(data) ==
    /\ data # <<>>
    /\ \E it \in Frames : Len(data) < Len(ItemBytes(it)) /\ IsPrefix(data, ItemBytes(it))

\* The payloads of the complete frames of a byte stream, by the wire format
\* Frame := VarInt(length) Payload[length]. A length VarInt of five bytes or
\* more is a length of 2^28 or more, or a negative or malformed one: no such
\* frame is complete in a stream of this model, and the frames end there.
RECURSIVE StreamFrames(_)
StreamFrames(bytes) ==
    LET more(i) == i <= Len(bytes) /\ bytes[i] >= 128
        last(i) == i <= Len(bytes) /\ bytes[i] < 128
        k == IF last(1) THEN 1
             ELSE IF more(1) /\ last(2) THEN 2
             ELSE IF more(1) /\ more(2) /\ last(3) THEN 3
             ELSE IF more(1) /\ more(2) /\ more(3) /\ last(4) THEN 4
             ELSE 0
        digit(i) == IF i <= k THEN bytes[i] % 128 ELSE 0
        length == digit(1) + 128 * digit(2) + 16384 * digit(3) + 2097152 * digit(4)
    IN IF k = 0 \/ Len(bytes) < k + length THEN <<>>
       ELSE <<SubSeq(bytes, k + 1, k + length)>> \o StreamFrames(Tail_n(bytes, k + length))

Last(seq) == seq[Len(seq)]

\* C1 (as claimed): once a connection that was sent one frame has read all of
\* its bytes, or has stopped reading, it has dispatched the same packet and is
\* left with the same state and the same buf as when the frame comes in one read,
\* however the bytes were split across reads.
C1_FrameReassembly ==
    (/\ Len(sent) = 1
     /\ sent[1] \in Frames
     /\ wire = <<>> \/ pc # "reading"
     /\ error.kind # "NetworkError"
     /\ received # <<>>)
    => /\ dispatched = ProcessPackets(ItemBytes(sent[1]), "Handshaking").dispatched
       /\ state = ProcessPackets(ItemBytes(sent[1]), "Handshaking").state
       /\ buf = ProcessPackets(ItemBytes(sent[1]), "Handshaking").buf

\* C2 (as claimed): a read after which buf holds only the first bytes of a frame
\* reports no error and leaves the connection reading.
C2_InsufficientDataNotError ==
    [][(Received /\ IsFramePrefix(Ingested)) => (pc' = "reading" /\ error' = NoError)]_vars

\* C3 (as claimed): an extraction that fails for want of bytes (OutOfBounds from
\* the read of the length or of the payload) leaves buf as it was when the
\* extraction started.
C3_FailedExtractionKeepsBytes ==
    [][(/\ Received
        /\ error'.kind = "OutOfBounds"
        /\ error'.at \in {"length", "payload"}) => buf' = Ingested]_vars

\* C4: in state Handshaking, processing a complete handshake packet moves the
\* state to Status when next_state = 1 and to Login when next_state = 2,
\* whatever its other fields.
C4_HandshakeTransition ==
    [][\A h \in Handshakes :
         (/\ Received
          /\ state = "Handshaking"
          /\ StartsWith(Ingested, h)
          /\ h.packet[4] \in {1, 2})
         => /\ state' = (IF h.packet[4] = 1 THEN "Status" ELSE "Login")
            /\ Last(dispatched').packet = h.packet]_vars

C4_Witness ==
    /\ state = "Login"
    /\ Len(dispatched) = 2
    /\ dispatched[1].outcome = "Unhandled"
    /\ dispatched[2].packet = <<763, Localhost, 25565, 2>>

\* C5: a handshake packet whose next_state is outside {1, 2} yields LogicError
\* and leaves the state Handshaking; handle() ends, and from then on nothing is
\* dispatched and the state stays.
C5_InvalidHandshakeFatal ==
    [][/\ \A h \in Handshakes :
            (/\ Received
             /\ state = "Handshaking"
             /\ StartsWith(Ingested, h)
             /\ h.packet[4] \notin {1, 2})
            => /\ pc' = "failed"
               /\ error' = [kind |-> "LogicError", at |-> "match"]
               /\ state' = "Handshaking"
       /\ error.kind = "LogicError"
            => /\ pc' = "failed"
               /\ error' = error
               /\ state' = state
               /\ dispatched' = dispatched]_vars

C5_Witness ==
    /\ pc = "failed"
    /\ error.kind = "LogicError"
    /\ state = "Handshaking"
    /\ Len(dispatched) = 1
    /\ dispatched[1].packet[4] = -1
    /\ \E it \in Frames : wire = ItemBytes(it)

\* C6: a connection starts in Handshaking; it is in Status or Login only after a
\* handshake packet the peer sent with next_state 1 or 2 was dispatched in
\* Handshaking; once in Status or Login its state never changes; it is never
\* in Play.
PhaseJustified ==
    /\ state \in ClientState
    /\ state # "Play"
    /\ received = <<>> => state = "Handshaking"
    /\ state \in {"Status", "Login"} =>
         \E k \in 1..Len(dispatched) : \E i \in 1..Len(sent) :
            /\ sent[i] \in Handshakes
            /\ dispatched[k].state = "Handshaking"
            /\ dispatched[k].packet = sent[i].packet
            /\ sent[i].packet[4] = (IF state = "Status" THEN 1 ELSE 2)

C6_PhaseInvariant ==
    [][/\ PhaseJustified
       /\ PhaseJustified'
       /\ state \in {"Status", "Login"} => state' = state
       /\ state' # state => state = "Handshaking" /\ Received]_vars

C6_Witness ==
    /\ state = "Status"
    /\ Len(dispatched) = 2
    /\ dispatched[1].outcome = "Status"
    /\ dispatched[2].state = "Status"
    /\ dispatched[2].packet_id = 0

\* C7: a complete frame whose (state, packet ID) has no handler is discarded:
\* no error, the state unchanged, the connection still reading, the frame and
\* nothing else gone from buf. The next complete frame the connection then
\* finds is dispatched with its own packet ID and payload in that state, and a
\* valid handshake among them still moves the state.
C7_UnknownPacketNotFatal ==
    [][/\ \A it \in Frames :
            (/\ Received
             /\ StartsWith(Ingested, it)
             /\ ~(state = "Handshaking" /\ it.packet_id = 0))
            => /\ pc' = "reading"
               /\ error' = NoError
               /\ state' = state
               /\ dispatched' = Append(dispatched,
                      Dispatch(state, it.packet_id, ItemPayload(it), NoPacket, "Unhandled"))
               /\ buf' = Tail_n(Ingested, Len(ItemBytes(it)))
       /\ \A it \in Frames :
            (/\ Received
             /\ dispatched # <<>>
             /\ Last(dispatched).outcome = "Unhandled"
             /\ StartsWith(Ingested, it))
            => /\ Len(dispatched') = Len(dispatched) + 1
               /\ Last(dispatched').state = state
               /\ Last(dispatched').packet_id = it.packet_id
               /\ Last(dispatched').payload = ItemPayload(it)
               /\ (state = "Handshaking" /\ it \in Handshakes /\ it.packet[4] = 1)
                     => state' = "Status"
               /\ (state = "Handshaking" /\ it \in Handshakes /\ it.packet[4] = 2)
                     => state' = "Login"]_vars

C7_Witness ==
    /\ pc = "reading"
    /\ Len(dispatched) = 2
    /\ dispatched[1].outcome = "Unhandled"
    /\ dispatched[1].packet_id = 127
    /\ dispatched[1].state = "Handshaking"
    /\ dispatched[2].outcome = "Status"
    /\ state = "Status"

\* C8 (as claimed): whenever the connection is back to waiting for bytes, its
\* buf holds no complete frame.
C8_DrainsEveryFrame ==
    pc = "reading" => ~(\E it \in Frames : StartsWith(buf, it))

\* C9: the frames dispatched so far are, in order, the first frames of the byte
\* stream received: none skipped, duplicated or out of order.
C9_InOrderDispatch ==
    /\ Len(dispatched) <= Len(StreamFrames(received))
    /\ \A k \in 1..Len(dispatched) : dispatched[k].payload = StreamFrames(received)[k]

C9_Witness ==
    /\ Len(dispatched) = 2
    /\ dispatched[1].payload # dispatched[2].payload
    /\ buf = <<>>

----------------------------------------------------------------------------
(* Properties of the VarInt codec (SpecCodec)                                  *)

\* C10 (as claimed): for every i32 v, write_var_int(v) into an empty Buffer
\* returns, and read_var_int then returns v and leaves the Buffer empty.
C10_VarIntRoundTrip ==
    /\ vpc # "aborted"
    /\ vpc = "read" => (vres.ok /\ vres.value = vvalue /\ vbuf = <<>>)

\* C16 (as claimed): write_var_int returns after appending between one and
\* five bytes for every i32: it is never still in its loop with five bytes
\* appended, and what it has appended when it returns is at most four bytes
\* with the continuation bit set and then one byte without it.
C16_VarIntEncodeBounded ==
    /\ vpc # "aborted"
    /\ vpc = "writing" => Len(vbuf) < 5
    /\ vpc = "written" =>
          /\ Len(vbuf) >= 1 /\ Len(vbuf) <= 5
          /\ \A i \in 1..(Len(vbuf) - 1) : vbuf[i] >= 128
          /\ vbuf[Len(vbuf)] < 128

\* The size on the wire of the first frame of a byte stream, length VarInt
\* and payload, by the wire format; 0 when the stream does not start with a
\* complete frame.
FirstFrameSize(bytes) ==
    LET more(i) == i <= Len(bytes) /\ bytes[i] >= 128
        last(i) == i <= Len(bytes) /\ bytes[i] < 128
        k == IF last(1) THEN 1
             ELSE IF more(1) /\ last(2) THEN 2
             ELSE IF more(1) /\ more(2) /\ last(3) THEN 3
             ELSE IF more(1) /\ more(2) /\ more(3) /\ last(4) THEN 4
             ELSE 0
        digit(i) == IF i <= k THEN bytes[i] % 128 ELSE 0
        length == digit(1) + 128 * digit(2) + 16384 * digit(3) + 2097152 * digit(4)
    IN IF k = 0 \/ Len(bytes) < k + length THEN 0 ELSE k + length

\* C17: when process_packets runs on a buf that starts with a complete frame,
\* it leaves in buf exactly the bytes after that frame, whatever the handler
\* read of the payload and whether or not the decoding failed: no byte of the
\* frame stays and no byte after the frame is taken.
C17_FramePayloadIsolation ==
    [][(Received /\ FirstFrameSize(Ingested) > 0) =>
           buf' = Tail_n(Ingested, FirstFrameSize(Ingested))]_vars

\* The frame with the unmatched ID 127 has been extracted, none of its payload
\* read by a handler, and the Ping frame received with it is whole in buf.
C17_Witness ==
    /\ sent = <<Unknown, Ping>>
    /\ wire = <<>>
    /\ pc = "reading"
    /\ Len(dispatched) = 1
    /\ dispatched[1].outcome = "Unhandled"
    /\ buf = ItemBytes(Ping)

\* C20 (as claimed): the assertion `length >= 0` of process_packets holds
\* whatever bytes the peer sends: no connection task ever panics at it.
C20_LengthAssertionHolds ==
    ~(pc = "panicked" /\ error.at = "assert")

----------------------------------------------------------------------------
(* Properties of the connection whose peer sends frames that do not decode   *)
(* (SpecDecode)                                                              *)

\* C15: when process_packets runs on a buf that starts with a complete frame
\* whose payload does not decode, the connection ends with that decode error,
\* its state is the one it had, and nothing but that frame is added to what
\* was dispatched; a connection that has ended never changes its state or
\* dispatches a frame again.
C15_DecodeErrorFatal ==
    [][/\ \A f \in DecodeFaults :
             (Received /\ state = "Handshaking" /\ StartsWith(Ingested, f.item)) =>
                 /\ pc' = "failed"
                 /\ error'.kind = f.err
                 /\ state' = state
                 /\ \A i \in (Len(dispatched) + 1)..Len(dispatched') :
                        /\ dispatched'[i].payload = Head(StreamFrames(ItemBytes(f.item)))
                        /\ dispatched'[i].outcome = "DecodeError"
       /\ pc = "failed" =>
             (pc' = "failed" /\ state' = state /\ dispatched' = dispatched)]_vars

\* The connection has ended at a handshake whose address is not UTF-8, with
\* a good handshake sent after it and never dispatched.
C15_Witness ==
    /\ sent = <<BadUtf8Address, Handshake(763, Localhost, 25565, 1)>>
    /\ pc = "failed"
    /\ error.kind = "InvalidUTF8String"
    /\ state = "Handshaking"
    /\ Len(received) = Len(ItemBytes(BadUtf8Address)) + Len(ItemBytes(Handshake(763, Localhost, 25565, 1)))
    /\ Len(dispatched) = 1

----------------------------------------------------------------------------
(* Properties of the server (SpecServer)                                       *)

\* C19: in every step of every interleaving, a step that changes anything of
\* one connection (bytes received, a frame extracted, the phase changed, an
\* error or a panic, the end of the stream) leaves the inbound buffer and the
\* state of every other connection as they were.
C19_ConnectionIsolation ==
    [][\A c \in Conns : \A d \in Conns \ {c} :
           clients'[c] # clients[c] =>
               /\ clients'[d].buf = clients[d].buf
               /\ clients'[d].state = clients[d].state]_vars

\* Connection 1 has taken a handshake into Status and holds the bytes of a
\* second frame; connection 2 has failed and is still Handshaking.
C19_Witness ==
    /\ clients[1].pc = "reading"
    /\ clients[1].state = "Status"
    /\ clients[1].buf = ItemBytes(Unknown)
    /\ clients[2].pc = "failed"
    /\ clients[2].state = "Handshaking"
    /\ clients[2].buf = <<>>

----------------------------------------------------------------------------
(* Properties of one Buffer call (SpecCall)                                    *)

\* The byte has the continuation bit (0x80) set.
Continues(byte) == byte >= 128

\* The position of the first byte of `data` without the continuation bit, 0
\* when every byte has it.
RECURSIVE FirstFinal(_, _)
FirstFinal(data, i) ==
    IF i > Len(data) THEN 0
    ELSE IF ~Continues(data[i]) THEN i
    ELSE FirstFinal(data, i + 1)

\* C11: read_var_int fails with InvalidVarIntSize on every input whose first
\* five bytes all have the continuation bit set, having read those five bytes
\* and no sixth; on every input whose first byte without the continuation bit
\* is among the first five it succeeds and consumes exactly the bytes up to
\* and including that one.
C11_VarIntOverflowGuard ==
    cop = "read_var_int" =>
        LET k == FirstFinal(cdata, 1) IN
        /\ (Len(cdata) >= 5 /\ (k = 0 \/ k > 5)) =>
               /\ ~cres.ok
               /\ cres.err = "InvalidVarIntSize"
               /\ cres.data = Tail_n(cdata, 5)
        /\ (k >= 1 /\ k <= 5) =>
               /\ cres.ok
               /\ cres.data = Tail_n(cdata, k)

\* read_var_int has refused five continuation bytes that a sixth byte follows.
C11_Witness ==
    /\ cop = "read_var_int"
    /\ cdata = <<255, 255, 255, 255, 255, 1>>
    /\ cres.err = "InvalidVarIntSize"
    /\ cres.data = <<1>>

\* The bytes a call with a fixed size needs: read_u8 1, read_u16 2, read_i64 8,
\* read_bytes, read_bytes_into and read_buffer their length argument.
FixedWant ==
    IF cop = "read_u8" THEN 1
    ELSE IF cop = "read_u16" THEN 2
    ELSE IF cop = "read_i64" THEN 8
    ELSE carg

\* The call made needs more bytes than the Buffer had: a fixed-size read of
\* more than remaining(), or a read_var_int (also the one of read_string) on
\* fewer than five bytes that all have the continuation bit set.
NeedsMoreBytes ==
    IF cop \in {"read_var_int", "read_string"}
    THEN Len(cdata) < 5 /\ FirstFinal(cdata, 1) = 0
    ELSE FixedWant > Remaining(cdata)

\* C12: a call of a read method that needs more bytes than remaining() fails
\* with OutOfBounds, and every call that fails with OutOfBounds leaves the
\* Buffer's data exactly as it was before the call.
C12_ReadAtomicity ==
    cop # "none" =>
        /\ NeedsMoreBytes => (~cres.ok /\ cres.err = "OutOfBounds")
        /\ (~cres.ok /\ cres.err = "OutOfBounds") => cres.data = cdata

\* The VarInt at the head of `data` is five bytes long and has bit 31 set (bit
\* 3 of its fifth byte): it decodes to a negative i32.
LeadingVarIntNegative(data) ==
    /\ FirstFinal(data, 1) = 5
    /\ (data[5] \div 8) % 2 = 1

\* C13: read_string on a Buffer whose leading VarInt decodes to a negative
\* length fails with InvalidStringLength, and the bytes after the length
\* VarInt are all still in the Buffer.
C13_NegativeStringLength ==
    (cop = "read_string" /\ LeadingVarIntNegative(cdata)) =>
        /\ ~cres.ok
        /\ cres.err = "InvalidStringLength"
        /\ cres.data = Tail_n(cdata, 5)

\* read_string has refused the length -1 that a byte follows.
C13_Witness ==
    /\ cop = "read_string"
    /\ cdata = <<255, 255, 255, 255, 127, 1>>
    /\ cres.err = "InvalidStringLength"
    /\ cres.data = <<1>>

----------------------------------------------------------------------------
(* Properties of the packets (SpecPacket)                                      *)

\* C14: the Ping response encoded for the payload decoded from a Ping request
\* body is the packet ID VarInt 0x01 followed by the eight bytes of the
\* request body, unchanged.
C14_PingEcho ==
    (ppc = "encoded" /\ ppkt.id = "S2CPing") => pout = <<1>> \o preq

\* The payload i64::MIN has been echoed.
C14_Witness ==
    /\ ppc = "encoded"
    /\ preq = <<128, 0, 0, 0, 0, 0, 0, 0>>
    /\ ppkt = S2CPingPacket(<<-32768, 0, 0, 0>>)
    /\ pout = <<1, 128, 0, 0, 0, 0, 0, 0, 0>>

\* C18: prepend_slice and prepend_buffer put the given bytes at the head of
\* the Buffer and leave the bytes written before unchanged and in order after
\* them, prepend_buffer leaving the source Buffer empty; from the packet with
\* the VarInt of its size n prepended, read_var_int returns n and
\* read_buffer(n) then returns exactly the packet's bytes and leaves the
\* Buffer empty.
C18_PrependFraming ==
    [][/\ ppc' = "prepended_slice" => (pout' = plen \o pout /\ plen' = plen)
       /\ ppc' = "prepended_buffer" => (pout' = plen \o pout /\ plen' = <<>>)
       /\ ppc' = "length_read" =>
              (pres'.ok /\ pres'.value = Len(pbody) /\ pout' = pbody)
       /\ ppc' = "payload_read" =>
              (pres'.ok /\ pres'.value = pbody /\ pout' = <<>>)]_vars

\* A Status response of 64 bytes, framed with prepend_buffer, has been read
\* back whole.
C18_Witness ==
    /\ ppc = "payload_read"
    /\ Len(pbody) = 64
    /\ plen = <<>>
    /\ pres.ok
    /\ pres.value = pbody
    /\ pout = <<>>

====
